---- MODULE Spec2Model ----
(***************************************************************************)
(* Model of src/src/lib.rs (py-oxyroot): the frame builder                 *)
(* tree_to_dataframe, the parquet export PyTree::to_parquet, the           *)
(* multi-file aggregation concat_trees and the process-wide rayon pool     *)
(* POOL with set_num_threads.                                              *)
(***************************************************************************)
EXTENDS Integers, Sequences, FiniteSets, TLC

(***************************************************************************)
(* Bounds of the model.                                                    *)
(***************************************************************************)
MaxBranches == 3      \* branches per input tree (frame specification)
MaxListLen == 2       \* length of a columns list
MaxIgnoreLen == 1     \* length of an ignore_columns list
MaxRows == 1          \* entries of an input tree (frame specification)
MaxPatterns == 2      \* patterns per concat_trees call
MaxWidth == 2         \* largest argument of set_num_threads
MaxGen == 2           \* pools built by set_num_threads in one run
HwThreads == 3        \* num_cpus::get() of the machine

Names == {"a", "b", "c"}

(***************************************************************************)
(* Values.  Option<Vec<String>> is [some, list]; a PyResult is             *)
(* [kind, frame, msg] with kind "ok", "err" (PyValueError) or "panic"      *)
(* (an unwrap() on an Err: the unwinding reaches the caller).              *)
(***************************************************************************)
None == [some |-> FALSE, list |-> <<>>]
Some(l) == [some |-> TRUE, list |-> l]

NullCell == [src |-> 0, row |-> 0]
EmptyFrame == [columns |-> <<>>, height |-> 0]

Ok(f) == [kind |-> "ok", frame |-> f, msg |-> ""]
Err(m) == [kind |-> "err", frame |-> EmptyFrame, msg |-> m]
Panic(m) == [kind |-> "panic", frame |-> EmptyFrame, msg |-> m]

SeqsUpTo(S, n) == UNION {[1..k -> S] : k \in 0..n}
Range(s) == {s[i] : i \in 1..Len(s)}
NoDup(s) == \A i, j \in 1..Len(s) : s[i] = s[j] => i = j

(***************************************************************************)
(* The type tags with a decoding path, and the column type of each         *)
(* (the match arms of tree_to_dataframe and to_parquet).                   *)
(***************************************************************************)
ItemTypes == {"float", "double", "int32_t", "int64_t", "uint32_t", "uint64_t", "string"}

DType(tag) ==
    CASE tag = "float" -> "Float32"
      [] tag = "double" -> "Float64"
      [] tag = "int32_t" -> "Int32"
      [] tag = "int64_t" -> "Int64"
      [] tag = "uint32_t" -> "UInt32"
      [] tag = "uint64_t" -> "UInt64"
      [] tag = "string" -> "Utf8"
      [] OTHER -> "Unsupported"

(***************************************************************************)
(* A tree is [id, entries, branches]; a branch is [name, tag, decodes],    *)
(* decodes = FALSE when branch.as_iter::<T>() returns Err.                 *)
(***************************************************************************)
BranchNames(tree) == [i \in 1..Len(tree.branches) |-> tree.branches[i].name]

\* tree.branch(name): the index of the branch, 0 for None
TreeBranch(tree, name) ==
    IF \E i \in 1..Len(tree.branches) : tree.branches[i].name = name
    THEN CHOOSE i \in 1..Len(tree.branches) :
            /\ tree.branches[i].name = name
            /\ \A j \in 1..(i - 1) : tree.branches[j].name # name
    ELSE 0

\* Series::new(name, data): the decoded column of a branch
SeriesNew(tree, b) ==
    [name |-> b.name, dtype |-> DType(b.tag),
     data |-> [r \in 1..tree.entries |-> [src |-> tree.id, row |-> r]]]

\* branches_to_save: the columns list, or every branch in declared order
BranchesToSave(tree, columns) ==
    IF columns.some THEN columns.list ELSE BranchNames(tree)

RetainNothing(s, ignore_columns) == s

\* branches_to_save.retain(|c| !ignore_columns.contains(c))
Retain(s, ignore_columns) ==
    IF ignore_columns.some
    THEN LET F[i \in 0..Len(s)] ==
                 IF i = 0 THEN <<>>
                 ELSE IF s[i] \in Range(ignore_columns.list) THEN F[i - 1]
                      ELSE Append(F[i - 1], s[i])
         IN F[Len(s)]
    ELSE s

\* the for loop over branches_to_save: [panic, series]
SeriesLoop(tree, names) ==
    LET F[i \in 0..Len(names)] ==
            IF i = 0 THEN [panic |-> FALSE, series |-> <<>>]
            ELSE LET acc == F[i - 1]
                     k == TreeBranch(tree, names[i])
                 IN IF acc.panic THEN acc
                    ELSE IF k = 0 THEN acc
                    ELSE IF tree.branches[k].tag \notin ItemTypes THEN acc
                    ELSE IF ~tree.branches[k].decodes
                         THEN [panic |-> TRUE, series |-> acc.series]
                    ELSE [panic |-> FALSE,
                          series |-> Append(acc.series, SeriesNew(tree, tree.branches[k]))]
    IN F[Len(names)]

\* DataFrame::new(columns): rejects a repeated name and unequal lengths
DataFrameNew(series) ==
    IF ~NoDup([i \in 1..Len(series) |-> series[i].name])
    THEN Err("duplicate column")
    ELSE IF \E i, j \in 1..Len(series) : Len(series[i].data) # Len(series[j].data)
    THEN Err("shape mismatch")
    ELSE Ok([columns |-> series,
             height |-> IF series = <<>> THEN 0 ELSE Len(series[1].data)])

tree_to_dataframe(tree, columns, ignore_columns) ==
    LET loop == SeriesLoop(tree, Retain(BranchesToSave(tree, columns), ignore_columns))
    IN IF loop.panic THEN Panic("unwrap on Err") ELSE DataFrameNew(loop.series)

ColumnNames(frame) == [i \in 1..Len(frame.columns) |-> frame.columns[i].name]

(***************************************************************************)
(* Frame specification: tree_to_dataframe applied to bounded inputs.       *)
(***************************************************************************)
VARIABLES fPc, fTree, fColumns, fIgnore, fRet

fvars == <<fPc, fTree, fColumns, fIgnore, fRet>>

BranchInputs ==
    {[name |-> n, tag |-> t, decodes |-> d] :
        n \in Names, t \in {"int32_t", "vector<float>"}, d \in BOOLEAN}
    \ {[name |-> n, tag |-> "vector<float>", decodes |-> FALSE] : n \in Names}

TreeInputs ==
    {[id |-> 1, entries |-> e, branches |-> bs] :
        e \in 0..MaxRows,
        bs \in {s \in SeqsUpTo(BranchInputs, MaxBranches) :
                    NoDup([i \in 1..Len(s) |-> s[i].name])}}

OptLists(n) == {None} \cup {Some(l) : l \in SeqsUpTo(Names, n)}

FrameInit ==
    /\ fPc = "call"
    /\ fTree \in TreeInputs
    /\ fColumns \in OptLists(MaxListLen)
    /\ fIgnore \in OptLists(MaxIgnoreLen)
    /\ fRet = Ok(EmptyFrame)

BuildFrame ==
    /\ fPc = "call"
    /\ fRet' = tree_to_dataframe(fTree, fColumns, fIgnore)
    /\ fPc' = "done"
    /\ UNCHANGED <<fTree, fColumns, fIgnore>>


(***************************************************************************)
(* The file system the calls read: path -> container file.  open = FALSE   *)
(* when RootFile::open fails, has_tree = FALSE when get_tree fails.        *)
(***************************************************************************)
Branch(n, t, d) == [name |-> n, tag |-> t, decodes |-> d]

Paths == {"f1", "f2", "f3", "f4", "f5", "f6"}

NoTree == [id |-> 0, entries |-> 0, branches |-> <<>>]

RootFiles ==
    [p \in Paths |->
        CASE p = "f1" -> [open |-> TRUE, has_tree |-> TRUE,
                          tree |-> [id |-> 1, entries |-> 2,
                                    branches |-> <<Branch("a", "float", TRUE),
                                                   Branch("b", "float", TRUE)>>]]
          [] p = "f2" -> [open |-> TRUE, has_tree |-> TRUE,
                          tree |-> [id |-> 2, entries |-> 3,
                                    branches |-> <<Branch("b", "float", TRUE),
                                                   Branch("c", "int32_t", TRUE),
                                                   Branch("d", "vector<float>", TRUE)>>]]
          [] p = "f3" -> [open |-> FALSE, has_tree |-> FALSE, tree |-> NoTree]
          [] p = "f4" -> [open |-> TRUE, has_tree |-> TRUE,
                          tree |-> [id |-> 4, entries |-> 1,
                                    branches |-> <<Branch("b", "double", TRUE)>>]]
          [] p = "f5" -> [open |-> TRUE, has_tree |-> TRUE,
                          tree |-> [id |-> 5, entries |-> 1,
                                    branches |-> <<Branch("a", "float", FALSE)>>]]
          [] p = "f6" -> [open |-> TRUE, has_tree |-> FALSE, tree |-> NoTree]]

(***************************************************************************)
(* PyTree::to_parquet, one step per statement group; eOut is the output    *)
(* file, eTrace the effects performed so far by the running call.          *)
(***************************************************************************)
VARIABLES ePc, eArgs, eOut, eOutAtCall, eTrace, eBatch, eRet

evars == <<ePc, eArgs, eOut, eOutAtCall, eTrace, eBatch, eRet>>

Compressions == {"snappy", "uncompressed", "gzip", "lzo", "brotli", "lz4", "zstd"}
CompressionInputs == {"snappy", "zstd", "bogus"}

Absent == [exists |-> FALSE, complete |-> FALSE, schema |-> <<>>]
Truncated == [exists |-> TRUE, complete |-> FALSE, schema |-> <<>>]
Written(schema) == [exists |-> TRUE, complete |-> TRUE, schema |-> schema]
OldFile == Written(<<[name |-> "old", dtype |-> "Utf8"]>>)

NoArgs == [path |-> "f1", overwrite |-> FALSE, compression |-> "snappy", columns |-> None]

ExportInit ==
    /\ ePc = "idle"
    /\ eArgs = NoArgs
    /\ eOut \in {Absent, OldFile}
    /\ eOutAtCall = Absent
    /\ eTrace = <<>>
    /\ eBatch = [panic |-> FALSE, fields |-> <<>>]
    /\ eRet = Ok(EmptyFrame)

ExportReturn(r) ==
    /\ eRet' = r
    /\ ePc' = "done"

ExportCall(path, overwrite, compression, columns) ==
    /\ ePc = "idle"
    /\ eArgs' = [path |-> path, overwrite |-> overwrite,
                 compression |-> compression, columns |-> columns]
    /\ eOutAtCall' = eOut
    /\ eTrace' = <<>>
    /\ eBatch' = [panic |-> FALSE, fields |-> <<>>]
    /\ ePc' = "check"
    /\ UNCHANGED <<eOut, eRet>>

\* the caller takes the result; the next call starts from the file as left
ExportTaken ==
    /\ ePc = "done"
    /\ ePc' = "idle"
    /\ eArgs' = NoArgs
    /\ eOutAtCall' = Absent
    /\ eTrace' = <<>>
    /\ eBatch' = [panic |-> FALSE, fields |-> <<>>]
    /\ eRet' = Ok(EmptyFrame)
    /\ UNCHANGED eOut

ExistsGuardInverted(overwrite, exists) == overwrite /\ exists

\* !overwrite && Path::new(&output_file).exists()
ExistsGuard(overwrite, exists) == ~overwrite /\ exists

ExportCheck ==
    /\ ePc = "check"
    /\ IF ExistsGuard(eArgs.overwrite, eOut.exists)
       THEN ExportReturn(Err("File exists, use overwrite=True"))
       ELSE ePc' = "codec" /\ UNCHANGED eRet
    /\ UNCHANGED <<eArgs, eOut, eOutAtCall, eTrace, eBatch>>

ExportCodec ==
    /\ ePc = "codec"
    /\ IF eArgs.compression \in Compressions
       THEN ePc' = "open" /\ UNCHANGED eRet
       ELSE ExportReturn(Err("Invalid compression type"))
    /\ UNCHANGED <<eArgs, eOut, eOutAtCall, eTrace, eBatch>>

ExportOpen ==
    /\ ePc = "open"
    /\ eTrace' = Append(eTrace, "open")
    /\ IF ~RootFiles[eArgs.path].open THEN ExportReturn(Err("open failed"))
       ELSE IF ~RootFiles[eArgs.path].has_tree THEN ExportReturn(Err("tree not found"))
       ELSE ePc' = "build" /\ UNCHANGED eRet
    /\ UNCHANGED <<eArgs, eOut, eOutAtCall, eBatch>>

\* the for loop of to_parquet: [panic, fields]
FieldLoop(tree, names) ==
    LET loop == SeriesLoop(tree, names)
    IN [panic |-> loop.panic,
        fields |-> [i \in 1..Len(loop.series) |->
                       [name |-> loop.series[i].name, dtype |-> loop.series[i].dtype]]]

\* RecordBatch::try_new(schema, arrays) is Ok: with no column there is no row count
RecordBatchTryNew(fields) == fields # <<>>

ExportBuild ==
    /\ ePc = "build"
    /\ eTrace' = Append(eTrace, "decode")
    /\ LET tree == RootFiles[eArgs.path].tree
           b == FieldLoop(tree, BranchesToSave(tree, eArgs.columns))
       IN /\ eBatch' = b
          /\ IF b.panic THEN ExportReturn(Panic("unwrap on Err"))
             ELSE IF ~RecordBatchTryNew(b.fields)
                  THEN ExportReturn(Panic("unwrap on Err: no column and no row count"))
             ELSE ePc' = "create" /\ UNCHANGED eRet
    /\ UNCHANGED <<eArgs, eOut, eOutAtCall>>

\* File::create(output_file)?
ExportCreate ==
    /\ ePc = "create"
    /\ \E io_ok \in BOOLEAN :
          IF io_ok
          THEN /\ eOut' = Truncated
               /\ eTrace' = Append(eTrace, "create")
               /\ ePc' = "write"
               /\ UNCHANGED eRet
          ELSE /\ ExportReturn(Err("io error"))
               /\ UNCHANGED <<eOut, eTrace>>
    /\ UNCHANGED <<eArgs, eOutAtCall, eBatch>>

\* ArrowWriter::try_new, write, close
ExportWrite ==
    /\ ePc = "write"
    /\ eTrace' = Append(eTrace, "write")
    /\ \E io_ok \in BOOLEAN :
          IF io_ok
          THEN eOut' = Written(eBatch.fields) /\ ExportReturn(Ok(EmptyFrame))
          ELSE eOut' = Truncated /\ ExportReturn(Err("io error"))
    /\ UNCHANGED <<eArgs, eOutAtCall, eBatch>>

(***************************************************************************)
(* Path-pattern expansion (glob::glob) over the file system above.         *)
(***************************************************************************)
Patterns == Paths \cup {"f[12]", "none*", "[", "locked/*"}

GlobOk(l) == [ok |-> TRUE, entries |-> l]
Entry(p) == [ok |-> TRUE, path |-> p]

\* glob::glob(&path): Err for a malformed pattern, else the matches in
\* alphabetical order; an entry is Err when a directory cannot be read
Glob(pattern) ==
    CASE pattern \in Paths -> GlobOk(<<Entry(pattern)>>)
      [] pattern = "f[12]" -> GlobOk(<<Entry("f1"), Entry("f2")>>)
      [] pattern = "none*" -> GlobOk(<<>>)
      [] pattern = "locked/*" -> GlobOk(<<[ok |-> FALSE, path |-> ""]>>)
      [] OTHER -> [ok |-> FALSE, entries |-> <<>>]

\* the two nested for loops filling all_paths: [ok, list]
ExpandPaths(paths) ==
    LET F[i \in 0..Len(paths)] ==
            IF i = 0 THEN [ok |-> TRUE, list |-> <<>>]
            ELSE LET acc == F[i - 1]
                     g == Glob(paths[i])
                 IN IF ~acc.ok THEN acc
                    ELSE IF ~g.ok \/ \E k \in 1..Len(g.entries) : ~g.entries[k].ok
                         THEN [ok |-> FALSE, list |-> <<>>]
                    ELSE [ok |-> TRUE,
                          list |-> acc.list \o [k \in 1..Len(g.entries) |-> g.entries[k].path]]
    IN F[Len(paths)]

\* the closure of the per-file job: open, get_tree, tree_to_dataframe
FileJob(path, columns, ignore_columns) ==
    IF ~RootFiles[path].open THEN Err("open failed")
    ELSE IF ~RootFiles[path].has_tree THEN Err("tree not found")
    ELSE tree_to_dataframe(RootFiles[path].tree, columns, ignore_columns)

(***************************************************************************)
(* polars::functions::concat_df_diagonal: the schema is the columns in     *)
(* first-seen order; each frame is widened with null columns and the       *)
(* frames are stacked; stacking columns of different types is an error.    *)
(***************************************************************************)
HasColumn(df, name) == \E k \in 1..Len(df.columns) : df.columns[k].name = name
Column(df, name) == df.columns[CHOOSE k \in 1..Len(df.columns) : df.columns[k].name = name]

Flatten(ss) ==
    LET F[i \in 0..Len(ss)] == IF i = 0 THEN <<>> ELSE F[i - 1] \o ss[i]
    IN F[Len(ss)]

DiagonalSchema(dfs) ==
    LET all == Flatten([i \in 1..Len(dfs) |-> dfs[i].columns])
        first == SelectSeq([i \in 1..Len(all) |-> i],
                           LAMBDA i : \A j \in 1..(i - 1) : all[j].name # all[i].name)
    IN [k \in 1..Len(first) |-> [name |-> all[first[k]].name, dtype |-> all[first[k]].dtype]]

NullColumn(height) == [r \in 1..height |-> NullCell]

Heights(dfs) ==
    LET F[i \in 0..Len(dfs)] == IF i = 0 THEN 0 ELSE F[i - 1] + dfs[i].height
    IN F[Len(dfs)]

\* plain vertical concatenation: every frame must have the first frame's columns
ConcatDfVertical(dfs) ==
    IF \E i \in 1..Len(dfs) : ColumnNames(dfs[i]) # ColumnNames(dfs[1])
    THEN Err("width mismatch")
    ELSE Ok([columns |->
                [k \in 1..Len(dfs[1].columns) |->
                    [name |-> dfs[1].columns[k].name, dtype |-> dfs[1].columns[k].dtype,
                     data |-> Flatten([i \in 1..Len(dfs) |-> dfs[i].columns[k].data])]],
             height |-> Heights(dfs)])

ConcatDfDiagonal(dfs) ==
    LET schema == DiagonalSchema(dfs)
    IN IF \E i \in 1..Len(dfs), k \in 1..Len(schema) :
             /\ HasColumn(dfs[i], schema[k].name)
             /\ Column(dfs[i], schema[k].name).dtype # schema[k].dtype
       THEN Err("dtype mismatch")
       ELSE Ok([columns |->
                   [k \in 1..Len(schema) |->
                       [name |-> schema[k].name, dtype |-> schema[k].dtype,
                        data |-> Flatten([i \in 1..Len(dfs) |->
                                    IF HasColumn(dfs[i], schema[k].name)
                                    THEN Column(dfs[i], schema[k].name).data
                                    ELSE NullColumn(dfs[i].height)])]],
                height |-> Heights(dfs)])

(***************************************************************************)
(* The process-wide pool POOL (Lazy<Mutex<rayon::ThreadPool>>), and the    *)
(* calls of set_num_threads and concat_trees made by concurrent threads.   *)
(* lock is the thread holding the mutex, 0 when it is free; reordered[t]    *)
(* records that a job of t's batch ended before a job earlier in the list. *)
(***************************************************************************)
VARIABLES POOL, lock, nextGen, installedLog, pc, call, startLen, all_paths,
          jobSt, slots, ranOn, reordered, borrowed, dfs, newPool, ret

pvars == <<POOL, lock, nextGen, installedLog, pc, call, startLen, all_paths,
           jobSt, slots, ranOn, reordered, borrowed, dfs, newPool, ret>>

\* the threads calling into the library; a caller that serialises the calls
\* (an interpreter lock) takes interleavings away and adds none
Threads == {1, 2}

Max(a, b) == IF a >= b THEN a ELSE b

BuiltWorkersHalved(n) == IF n = 0 THEN HwThreads ELSE Max(1, n \div 2)

\* what ThreadPoolBuilder::num_threads(n) builds: 0 selects the automatic width
BuiltWorkers(n) == IF n = 0 THEN HwThreads ELSE n

\* the Lazy initialiser of POOL
DefaultPool == [gen |-> 0, workers |-> Max(1, HwThreads \div 2)]

EmptySlot == [kind |-> "empty", frame |-> EmptyFrame, msg |-> ""]
\* lockAtCall records the holder of the mutex when the call was made
NoCall == [op |-> "none", paths |-> <<>>, columns |-> None, ignore_columns |-> None,
           n |-> 0, lockAtCall |-> 0]

\* no call is running and pool p is installed
PoolStart(p) ==
    /\ POOL = p
    /\ lock = 0
    /\ nextGen = p.gen
    /\ installedLog = <<p.gen>>
    /\ pc = [t \in Threads |-> "idle"]
    /\ call = [t \in Threads |-> NoCall]
    /\ startLen = [t \in Threads |-> 1]
    /\ all_paths = [t \in Threads |-> <<>>]
    /\ jobSt = [t \in Threads |-> <<>>]
    /\ slots = [t \in Threads |-> <<>>]
    /\ ranOn = [t \in Threads |-> <<>>]
    /\ reordered = [t \in Threads |-> FALSE]
    /\ borrowed = [t \in Threads |-> DefaultPool]
    /\ dfs = [t \in Threads |-> <<>>]
    /\ newPool = [t \in Threads |-> DefaultPool]
    /\ ret = [t \in Threads |-> EmptySlot]

PoolInit == PoolStart(DefaultPool)

MutexAlwaysAvailable(t) == TRUE

\* POOL.lock() returns only when no thread holds the mutex
MutexAvailable(t) == lock = 0

(* ---- set_num_threads ---- *)

\* ThreadPoolBuilder::new().num_threads(n).build(), Err when a worker cannot be spawned
SetCall(t, n, spawned) ==
    /\ pc[t] = "idle"
    /\ nextGen < MaxGen
    /\ call' = [call EXCEPT ![t] = [NoCall EXCEPT !.op = "set", !.n = n, !.lockAtCall = lock]]
    /\ startLen' = [startLen EXCEPT ![t] = Len(installedLog)]
    /\ IF spawned
       THEN /\ nextGen' = nextGen + 1
            /\ newPool' = [newPool EXCEPT ![t] = [gen |-> nextGen + 1, workers |-> BuiltWorkers(n)]]
            /\ pc' = [pc EXCEPT ![t] = "setlock"]
            /\ ret' = [ret EXCEPT ![t] = EmptySlot]
       ELSE /\ ret' = [ret EXCEPT ![t] = Err("spawn failed")]
            /\ pc' = [pc EXCEPT ![t] = "returned"]
            /\ UNCHANGED <<nextGen, newPool>>
    /\ UNCHANGED <<POOL, lock, installedLog, all_paths, jobSt, slots, ranOn, reordered, borrowed, dfs>>

SetLock(t) ==
    /\ pc[t] = "setlock"
    /\ MutexAvailable(t)
    /\ lock' = t
    /\ pc' = [pc EXCEPT ![t] = "store"]
    /\ UNCHANGED <<POOL, nextGen, installedLog, call, startLen, all_paths, jobSt, slots,
                   ranOn, reordered, borrowed, dfs, newPool, ret>>

\* *guard = pool; the guard is dropped at the end of the statement; Ok(())
SetStore(t) ==
    /\ pc[t] = "store"
    /\ POOL' = newPool[t]
    /\ installedLog' = Append(installedLog, newPool[t].gen)
    /\ lock' = 0
    /\ ret' = [ret EXCEPT ![t] = Ok(EmptyFrame)]
    /\ pc' = [pc EXCEPT ![t] = "returned"]
    /\ UNCHANGED <<nextGen, call, startLen, all_paths, jobSt, slots, ranOn, reordered, borrowed,
                   dfs, newPool>>

(* ---- concat_trees ---- *)

ConcatCall(t, paths, columns, ignore_columns) ==
    /\ pc[t] = "idle"
    /\ call' = [call EXCEPT ![t] = [op |-> "concat", paths |-> paths, columns |-> columns,
                                    ignore_columns |-> ignore_columns, n |-> 0,
                                    lockAtCall |-> lock]]
    /\ startLen' = [startLen EXCEPT ![t] = Len(installedLog)]
    /\ LET e == ExpandPaths(paths)
       IN IF e.ok
          THEN /\ all_paths' = [all_paths EXCEPT ![t] = e.list]
               /\ pc' = [pc EXCEPT ![t] = "lock"]
               /\ ret' = [ret EXCEPT ![t] = EmptySlot]
          ELSE /\ all_paths' = [all_paths EXCEPT ![t] = <<>>]
               /\ ret' = [ret EXCEPT ![t] = Err("pattern error")]
               /\ pc' = [pc EXCEPT ![t] = "returned"]
    /\ jobSt' = [jobSt EXCEPT ![t] = <<>>]
    /\ slots' = [slots EXCEPT ![t] = <<>>]
    /\ ranOn' = [ranOn EXCEPT ![t] = <<>>]
    /\ reordered' = [reordered EXCEPT ![t] = FALSE]
    /\ dfs' = [dfs EXCEPT ![t] = <<>>]
    /\ UNCHANGED <<POOL, lock, nextGen, installedLog, borrowed, newPool>>

HolderReleasedEarly(t) == 0

\* the holder of the mutex while the guard `pool` is alive
HolderDuringBatch(t) == t

\* let pool = POOL.lock(); pool.install(..) submits one job per path
ConcatLock(t) ==
    /\ pc[t] = "lock"
    /\ MutexAvailable(t)
    /\ lock' = HolderDuringBatch(t)
    /\ borrowed' = [borrowed EXCEPT ![t] = POOL]
    /\ jobSt' = [jobSt EXCEPT ![t] = [i \in 1..Len(all_paths[t]) |-> "pending"]]
    /\ slots' = [slots EXCEPT ![t] = [i \in 1..Len(all_paths[t]) |-> EmptySlot]]
    /\ ranOn' = [ranOn EXCEPT ![t] = [i \in 1..Len(all_paths[t]) |-> POOL.gen]]
    /\ reordered' = [reordered EXCEPT ![t] = FALSE]
    /\ pc' = [pc EXCEPT ![t] = "batch"]
    /\ UNCHANGED <<POOL, nextGen, installedLog, call, startLen, all_paths, dfs, newPool, ret>>

Running(t) == {i \in 1..Len(jobSt[t]) : jobSt[t][i] = "running"}
Panicked(t) == \E i \in 1..Len(slots[t]) : slots[t][i].kind = "panic"

\* a worker of the pool behind the guard picks up job i
StartJob(t, i) ==
    /\ pc[t] = "batch"
    /\ i \in 1..Len(jobSt[t])
    /\ jobSt[t][i] = "pending"
    /\ Cardinality(Running(t)) < POOL.workers
    /\ jobSt' = [jobSt EXCEPT ![t][i] = "running"]
    /\ ranOn' = [ranOn EXCEPT ![t][i] = POOL.gen]
    /\ UNCHANGED <<POOL, lock, nextGen, installedLog, pc, call, startLen, all_paths,
                   slots, reordered, borrowed, dfs, newPool, ret>>

SlotByCompletion(t, i) == Cardinality({k \in 1..Len(jobSt[t]) : jobSt[t][k] = "done"}) + 1

\* collect() of the parallel iterator keeps the items in the order of all_paths
SlotOf(t, i) == i

FinishJob(t, i) ==
    /\ pc[t] = "batch"
    /\ i \in 1..Len(jobSt[t])
    /\ jobSt[t][i] = "running"
    /\ jobSt' = [jobSt EXCEPT ![t][i] = "done"]
    /\ slots' = [slots EXCEPT ![t][SlotOf(t, i)] =
                    FileJob(all_paths[t][i], call[t].columns, call[t].ignore_columns)]
    /\ reordered' = [reordered EXCEPT ![t] =
                        reordered[t] \/ \E j \in 1..(i - 1) : jobSt[t][j] # "done"]
    /\ UNCHANGED <<POOL, lock, nextGen, installedLog, pc, call, startLen, all_paths,
                   ranOn, borrowed, dfs, newPool, ret>>

\* .filter_map(Result::ok).collect(): the Ok frames, in slot order
CollectOk(ss) ==
    LET F[i \in 0..Len(ss)] ==
            IF i = 0 THEN <<>>
            ELSE IF ss[i].kind = "ok" THEN Append(F[i - 1], ss[i].frame) ELSE F[i - 1]
    IN F[Len(ss)]

\* pool.install returns: every job has ended, or a job panicked (the jobs not
\* yet started may then be dropped) and the panic resumes in the caller, whose
\* unwinding drops the guard
ConcatCollect(t) ==
    /\ pc[t] = "batch"
    /\ Running(t) = {}
    /\ Panicked(t) \/ \A i \in 1..Len(jobSt[t]) : jobSt[t][i] = "done"
    /\ IF Panicked(t)
       THEN /\ ret' = [ret EXCEPT ![t] = Panic("unwrap on Err")]
            /\ lock' = 0
            /\ pc' = [pc EXCEPT ![t] = "returned"]
            /\ UNCHANGED dfs
       ELSE /\ dfs' = [dfs EXCEPT ![t] = CollectOk(slots[t])]
            /\ pc' = [pc EXCEPT ![t] = "union"]
            /\ UNCHANGED <<ret, lock>>
    /\ UNCHANGED <<POOL, nextGen, installedLog, call, startLen, all_paths, jobSt, slots,
                   ranOn, reordered, borrowed, newPool>>

HolderKeptOnError(t, r) == IF r.kind = "err" THEN t ELSE 0

\* the guard is dropped when concat_trees returns, whatever it returns
HolderAfterReturn(t, r) == 0

\* dfs.is_empty(), concat_df_diagonal(&dfs), return
ConcatReturn(t) ==
    /\ pc[t] = "union"
    /\ LET r == IF dfs[t] = <<>> THEN Ok(EmptyFrame) ELSE ConcatDfDiagonal(dfs[t])
       IN /\ ret' = [ret EXCEPT ![t] = r]
          /\ lock' = HolderAfterReturn(t, r)
    /\ pc' = [pc EXCEPT ![t] = "returned"]
    /\ UNCHANGED <<POOL, nextGen, installedLog, call, startLen, all_paths, jobSt, slots,
                   ranOn, reordered, borrowed, dfs, newPool>>

\* the caller takes the result and drops the call's locals
Taken(t) ==
    /\ pc[t] = "returned"
    /\ pc' = [pc EXCEPT ![t] = "idle"]
    /\ call' = [call EXCEPT ![t] = NoCall]
    /\ startLen' = [startLen EXCEPT ![t] = 1]
    /\ all_paths' = [all_paths EXCEPT ![t] = <<>>]
    /\ jobSt' = [jobSt EXCEPT ![t] = <<>>]
    /\ slots' = [slots EXCEPT ![t] = <<>>]
    /\ ranOn' = [ranOn EXCEPT ![t] = <<>>]
    /\ reordered' = [reordered EXCEPT ![t] = FALSE]
    /\ borrowed' = [borrowed EXCEPT ![t] = DefaultPool]
    /\ dfs' = [dfs EXCEPT ![t] = <<>>]
    /\ newPool' = [newPool EXCEPT ![t] = DefaultPool]
    /\ ret' = [ret EXCEPT ![t] = EmptySlot]
    /\ UNCHANGED <<POOL, lock, nextGen, installedLog>>

(* ---- inputs of the calls ---- *)
Selection(c, i) == [columns |-> c, ignore_columns |-> i]
SelectionInputs == {Selection(None, None),
                    Selection(Some(<<"a", "b", "c">>), Some(<<"b">>))}

\* every list of patterns (aggregation specification)
PathInputs == SeqsUpTo(Patterns, MaxPatterns)

\* one list per way through concat_trees (concurrency specification): two
\* readable files, a type conflict, a decode failure, no usable file, a bad pattern
FewPathInputs == {<<"f[12]">>, <<"f1", "f4">>, <<"f5">>, <<"f3">>, <<"[">>}

(***************************************************************************)
(* The specifications.  Each runs one part of the library; the variables   *)
(* of the other parts stay parked.                                         *)
(***************************************************************************)
vars == <<fvars, evars, pvars>>

FrameParked ==
    /\ fPc = "off"
    /\ fTree = NoTree
    /\ fColumns = None
    /\ fIgnore = None
    /\ fRet = Ok(EmptyFrame)

ExportParked ==
    /\ ePc = "off"
    /\ eArgs = NoArgs
    /\ eOut = Absent
    /\ eOutAtCall = Absent
    /\ eTrace = <<>>
    /\ eBatch = [panic |-> FALSE, fields |-> <<>>]
    /\ eRet = Ok(EmptyFrame)

PoolParked ==
    /\ POOL = DefaultPool
    /\ lock = 0
    /\ nextGen = 0
    /\ installedLog = <<0>>
    /\ pc = [t \in Threads |-> "off"]
    /\ call = [t \in Threads |-> NoCall]
    /\ startLen = [t \in Threads |-> 1]
    /\ all_paths = [t \in Threads |-> <<>>]
    /\ jobSt = [t \in Threads |-> <<>>]
    /\ slots = [t \in Threads |-> <<>>]
    /\ ranOn = [t \in Threads |-> <<>>]
    /\ reordered = [t \in Threads |-> FALSE]
    /\ borrowed = [t \in Threads |-> DefaultPool]
    /\ dfs = [t \in Threads |-> <<>>]
    /\ newPool = [t \in Threads |-> DefaultPool]
    /\ ret = [t \in Threads |-> EmptySlot]

\* tree_to_dataframe on every bounded tree and selection
SpecFrameInit == FrameInit /\ ExportParked /\ PoolParked
SpecFrameNext == BuildFrame /\ UNCHANGED <<evars, pvars>>
SpecFrame == SpecFrameInit /\ [][SpecFrameNext]_vars

\* to_parquet, call after call on one output path
SpecExportInit == ExportInit /\ FrameParked /\ PoolParked
SpecExportNext ==
    \/ /\ ePc = "idle"
       /\ \E path \in Paths, overwrite \in BOOLEAN, compression \in CompressionInputs,
             columns \in OptLists(MaxListLen) :
               ExportCall(path, overwrite, compression, columns)
       /\ UNCHANGED <<fvars, pvars>>
    \/ ExportCheck /\ UNCHANGED <<fvars, pvars>>
    \/ ExportCodec /\ UNCHANGED <<fvars, pvars>>
    \/ ExportOpen /\ UNCHANGED <<fvars, pvars>>
    \/ ExportBuild /\ UNCHANGED <<fvars, pvars>>
    \/ ExportCreate /\ UNCHANGED <<fvars, pvars>>
    \/ ExportWrite /\ UNCHANGED <<fvars, pvars>>
    \/ ExportTaken /\ UNCHANGED <<fvars, pvars>>
SpecExport == SpecExportInit /\ [][SpecExportNext]_vars

\* concat_trees by one thread on every bounded pattern list, on the default
\* pool and on the pools set_num_threads installs
AggThreads == {1}

InstalledPools == {DefaultPool} \cup {[gen |-> 1, workers |-> BuiltWorkers(n)] : n \in 0..MaxWidth}

SpecAggInit ==
    /\ \E p \in InstalledPools : PoolStart(p)
    /\ FrameParked
    /\ ExportParked
SpecAggNext ==
    \/ \E t \in AggThreads :
          /\ pc[t] = "idle"
          /\ \E paths \in PathInputs, sel \in SelectionInputs :
                ConcatCall(t, paths, sel.columns, sel.ignore_columns)
          /\ UNCHANGED <<fvars, evars>>
    \/ \E t \in AggThreads : ConcatLock(t) /\ UNCHANGED <<fvars, evars>>
    \/ \E t \in AggThreads, i \in 1..(2 * MaxPatterns) :
          StartJob(t, i) /\ UNCHANGED <<fvars, evars>>
    \/ \E t \in AggThreads, i \in 1..(2 * MaxPatterns) :
          FinishJob(t, i) /\ UNCHANGED <<fvars, evars>>
    \/ \E t \in AggThreads : ConcatCollect(t) /\ UNCHANGED <<fvars, evars>>
    \/ \E t \in AggThreads : ConcatReturn(t) /\ UNCHANGED <<fvars, evars>>
    \/ \E t \in AggThreads : Taken(t) /\ UNCHANGED <<fvars, evars>>
SpecAgg == SpecAggInit /\ [][SpecAggNext]_vars

\* concurrent set_num_threads and concat_trees calls
Init == PoolInit /\ FrameParked /\ ExportParked
Next ==
    \/ \E t \in Threads, n \in 0..MaxWidth, spawned \in BOOLEAN :
          SetCall(t, n, spawned) /\ UNCHANGED <<fvars, evars>>
    \/ \E t \in Threads : SetLock(t) /\ UNCHANGED <<fvars, evars>>
    \/ \E t \in Threads : SetStore(t) /\ UNCHANGED <<fvars, evars>>
    \/ \E t \in Threads, paths \in FewPathInputs :
          ConcatCall(t, paths, None, None) /\ UNCHANGED <<fvars, evars>>
    \/ \E t \in Threads : ConcatLock(t) /\ UNCHANGED <<fvars, evars>>
    \/ \E t \in Threads, i \in 1..2 : StartJob(t, i) /\ UNCHANGED <<fvars, evars>>
    \/ \E t \in Threads, i \in 1..2 : FinishJob(t, i) /\ UNCHANGED <<fvars, evars>>
    \/ \E t \in Threads : ConcatCollect(t) /\ UNCHANGED <<fvars, evars>>
    \/ \E t \in Threads : ConcatReturn(t) /\ UNCHANGED <<fvars, evars>>
    \/ \E t \in Threads : Taken(t) /\ UNCHANGED <<fvars, evars>>
Spec == Init /\ [][Next]_vars

\* a step of the call t is running, once it has the mutex
Step(t) ==
    \/ SetStore(t)
    \/ \E i \in 1..2 : StartJob(t, i)
    \/ \E i \in 1..2 : FinishJob(t, i)
    \/ ConcatCollect(t)
    \/ ConcatReturn(t)

\* t takes the mutex
Acquire(t) == SetLock(t) \/ ConcatLock(t)

\* the same under fair scheduling: a running call keeps taking steps (the OS
\* schedules every thread, every job terminates), and a thread waiting for
\* the mutex gets it if it is free again and again (parking_lot's mutex is
\* eventually fair)
Fairness ==
    \A t \in Threads :
        /\ WF_vars(Step(t) /\ UNCHANGED <<fvars, evars>>)
        /\ SF_vars(Acquire(t) /\ UNCHANGED <<fvars, evars>>)

\* one list per way through concat_trees, the successful one with one file
LivePathInputs == {<<"f4">>, <<"f1", "f4">>, <<"f5">>, <<"f3">>, <<"[">>}

LiveNext ==
    \/ \E t \in Threads, spawned \in BOOLEAN :
          SetCall(t, MaxWidth, spawned) /\ UNCHANGED <<fvars, evars>>
    \/ \E t \in Threads : SetLock(t) /\ UNCHANGED <<fvars, evars>>
    \/ \E t \in Threads : SetStore(t) /\ UNCHANGED <<fvars, evars>>
    \/ \E t \in Threads, paths \in LivePathInputs :
          ConcatCall(t, paths, None, None) /\ UNCHANGED <<fvars, evars>>
    \/ \E t \in Threads : ConcatLock(t) /\ UNCHANGED <<fvars, evars>>
    \/ \E t \in Threads, i \in 1..2 : StartJob(t, i) /\ UNCHANGED <<fvars, evars>>
    \/ \E t \in Threads, i \in 1..2 : FinishJob(t, i) /\ UNCHANGED <<fvars, evars>>
    \/ \E t \in Threads : ConcatCollect(t) /\ UNCHANGED <<fvars, evars>>
    \/ \E t \in Threads : ConcatReturn(t) /\ UNCHANGED <<fvars, evars>>
    \/ \E t \in Threads : Taken(t) /\ UNCHANGED <<fvars, evars>>
LiveSpec == Init /\ [][LiveNext]_vars /\ Fairness

(***************************************************************************)
(* Properties of tree_to_dataframe (under SpecFrame).                      *)
(***************************************************************************)
Supported(tree, n) ==
    \E k \in 1..Len(tree.branches) :
        tree.branches[k].name = n /\ tree.branches[k].tag \in ItemTypes

Decodes(tree, n) ==
    \A k \in 1..Len(tree.branches) :
        tree.branches[k].name = n => tree.branches[k].decodes

\* the selection in order: the include list or the declared names, minus the
\* excluded names, minus the names that are absent or of an unsupported type
KeptNames(tree, columns, ignore_columns) ==
    SelectSeq(IF columns.some THEN columns.list ELSE BranchNames(tree),
              LAMBDA n : /\ ~(ignore_columns.some /\ n \in Range(ignore_columns.list))
                         /\ Supported(tree, n))

FrameKept == KeptNames(fTree, fColumns, fIgnore)

\* C4 as stated: for every tree, include list and exclude list the build
\* returns a Frame, never an error, with exactly one column per kept name in
\* selection order.
C4_AlwaysAFrame ==
    fPc = "done" =>
        /\ fRet.kind = "ok"
        /\ ColumnNames(fRet.frame) = FrameKept

\* C4 as the code behaves: when every kept branch decodes and no kept name is selected
\* twice, the build returns a Frame whose columns are exactly the kept names
\* in selection order, each with one cell per entry of the tree; a kept name
\* selected twice makes the build return an error instead, and a kept branch
\* that fails to decode makes it panic.
C4_FrameOfKeptNames ==
    fPc = "done" =>
        IF \E i \in 1..Len(FrameKept) : ~Decodes(fTree, FrameKept[i])
        THEN fRet.kind = "panic"
        ELSE IF ~NoDup(FrameKept)
        THEN fRet.kind = "err"
        ELSE /\ fRet.kind = "ok"
             /\ ColumnNames(fRet.frame) = FrameKept
             /\ \A k \in 1..Len(fRet.frame.columns) :
                    Len(fRet.frame.columns[k].data) = fTree.entries

\* the tree {a, b, c} built with include = [a, b] and exclude = [b] gave exactly column a
C4_Witness ==
    /\ fPc = "done"
    /\ BranchNames(fTree) = <<"a", "b", "c">>
    /\ \A n \in Names : Supported(fTree, n) /\ Decodes(fTree, n)
    /\ fColumns = Some(<<"a", "b">>)
    /\ fIgnore = Some(<<"b">>)
    /\ fRet.kind = "ok"
    /\ ColumnNames(fRet.frame) = <<"a">>

(***************************************************************************)
(* Properties of to_parquet (under SpecExport).                            *)
(***************************************************************************)
\* C5: a call with overwrite = false on an existing output path has no effect
\* at any point of its run (the source is not opened, no branch is decoded,
\* the output is neither created nor changed) and ends with the
\* already-exists error, whatever the codec and the include list.
C5_ExistingOutputUntouched ==
    (ePc \notin {"idle", "off"} /\ ~eArgs.overwrite /\ eOutAtCall.exists) =>
        /\ eTrace = <<>>
        /\ eOut = eOutAtCall
        /\ ePc \in {"check", "done"}
        /\ ePc = "done" => eRet = Err("File exists, use overwrite=True")

\* such a call has ended, with a codec that would otherwise have been rejected,
\* on a file written by an earlier export
C5_Witness ==
    /\ ePc = "done"
    /\ ~eArgs.overwrite
    /\ eArgs.compression = "bogus"
    /\ eArgs.columns = Some(<<"a">>)
    /\ eOutAtCall.exists
    /\ eOutAtCall # OldFile
    /\ eOut = eOutAtCall
    /\ eRet.kind = "err"

\* C6: an export of at least one selected name whose pre-flight checks
\* passed, whose tree was found and whose selected supported branches all
\* decode ends without a panic, and
\* fails only if the file system refuses the write, however many selected
\* branches were skipped as missing or unsupported.
C6_SkipsNeverFail ==
    (/\ ePc = "done"
     /\ Len(eTrace) >= 2
     /\ BranchesToSave(RootFiles[eArgs.path].tree, eArgs.columns) # <<>>
     /\ \A n \in Range(BranchesToSave(RootFiles[eArgs.path].tree, eArgs.columns)) :
            Decodes(RootFiles[eArgs.path].tree, n))
    => (eRet.kind = "ok" \/ eRet = Err("io error"))

(***************************************************************************)
(* Properties of concat_trees (under SpecAgg).                             *)
(***************************************************************************)
ConcatReturned(t) == pc[t] = "returned" /\ call[t].op = "concat"

\* the call ran its batch (its patterns expanded)
Batched(t) == ConcatReturned(t) /\ ExpandPaths(call[t].paths).ok

\* what each file of the list yields when read on its own, in list order
SeqResults(t) ==
    [i \in 1..Len(all_paths[t]) |->
        FileJob(all_paths[t][i], call[t].columns, call[t].ignore_columns)]

OkFrames(rs) ==
    LET oks == SelectSeq(rs, LAMBDA r : r.kind = "ok")
    IN [i \in 1..Len(oks) |-> oks[i].frame]

Succeeded(t) == OkFrames(SeqResults(t))

\* the file and row every row of a frame came from
RowOrigins(frame) ==
    [r \in 1..frame.height |->
        IF \E k \in 1..Len(frame.columns) : frame.columns[k].data[r] # NullCell
        THEN LET k == CHOOSE k \in 1..Len(frame.columns) :
                          frame.columns[k].data[r] # NullCell
             IN frame.columns[k].data[r]
        ELSE NullCell]

\* the rows of the successful files of the list, file after file
ExpectedOrigins(paths, rs) ==
    Flatten([i \in 1..Len(paths) |->
                IF rs[i].kind = "ok"
                THEN [r \in 1..rs[i].frame.height |->
                         [src |-> RootFiles[paths[i]].tree.id, row |-> r]]
                ELSE <<>>])

\* C1: whatever the order in which the jobs ended and whatever the width of
\* the pool, the call ends the same way: the frames it combines are those of
\* the successful files in file-list order, and the rows of the returned frame
\* are the rows of those files, file after file in list order.
C1_FileListOrder ==
    \A t \in Threads :
        ConcatReturned(t) /\ ret[t] # Err("pattern error") =>
            LET rs == SeqResults(t)
            IN /\ ret[t].kind = "panic" <=> \E i \in 1..Len(rs) : rs[i].kind = "panic"
               /\ ret[t].kind # "panic" => dfs[t] = OkFrames(rs)
               /\ ret[t].kind = "ok" =>
                      RowOrigins(ret[t].frame) = ExpectedOrigins(all_paths[t], rs)

\* a frame of two files was returned by a batch whose second job ended first,
\* on a pool installed by set_num_threads
C1_Witness ==
    \E t \in Threads :
        /\ Batched(t)
        /\ ret[t].kind = "ok"
        /\ Len(dfs[t]) >= 2
        /\ ret[t].frame.height >= 2
        /\ reordered[t]
        /\ borrowed[t] # DefaultPool
        /\ borrowed[t].workers > 1

Aggregate(fs) == IF fs = <<>> THEN Ok(EmptyFrame) ELSE ConcatDfDiagonal(fs)

\* C2: no per-file failure reaches the caller: the call ends as the
\* aggregation of exactly the files whose job succeeded.
C2_FailuresDropped ==
    \A t \in Threads :
        Batched(t) =>
            /\ ret[t].kind # "panic"
            /\ ret[t] = Aggregate(Succeeded(t))

NameSet(frame) == Range(ColumnNames(frame))

TypeConsistent(fs) ==
    \A i, j \in 1..Len(fs) :
        \A a \in 1..Len(fs[i].columns), b \in 1..Len(fs[j].columns) :
            fs[i].columns[a].name = fs[j].columns[b].name
                => fs[i].columns[a].dtype = fs[j].columns[b].dtype

\* r is the diagonal union of the frames fs
DiagonalOk(fs, r) ==
    /\ r.kind = "ok"
    /\ NameSet(r.frame) = UNION {NameSet(fs[i]) : i \in 1..Len(fs)}
    /\ NoDup(ColumnNames(r.frame))
    /\ r.frame.height = Heights(fs)
    /\ \A k \in 1..Len(r.frame.columns) :
          /\ Len(r.frame.columns[k].data) = r.frame.height
          /\ \A i \in 1..Len(fs) : \A q \in 1..fs[i].height :
                LET cell == r.frame.columns[k].data[Heights(SubSeq(fs, 1, i - 1)) + q]
                    name == r.frame.columns[k].name
                IN IF HasColumn(fs[i], name)
                   THEN cell = Column(fs[i], name).data[q] /\ cell # NullCell
                   ELSE cell = NullCell

\* the call reached concat_df_diagonal
Unioned(t) == ConcatReturned(t) /\ dfs[t] # <<>>

\* C3 as stated: for every non-empty sequence of successful frames the result
\* is their diagonal union (union of the column names, sum of the row counts,
\* null cells where a frame lacks a column).
C3_EveryUnionSucceeds ==
    \A t \in Threads : Unioned(t) => DiagonalOk(dfs[t], ret[t])

\* C3 amended: the same for every non-empty sequence of successful frames in
\* which no column name has two different element types; differing column
\* sets never make the call fail, a type conflict on a shared name does.
C3_UnionOfConsistentFrames ==
    \A t \in Threads :
        Unioned(t) =>
            IF TypeConsistent(dfs[t]) THEN DiagonalOk(dfs[t], ret[t])
            ELSE ret[t].kind = "err"

\* f1 {a, b} (2 rows) and f2 {b, c} (3 rows) gave columns a, b, c and 5 rows,
\* rows 1-2 null in c and rows 3-5 null in a
C3_Witness ==
    \E t \in Threads :
        /\ Unioned(t)
        /\ all_paths[t] = <<"f1", "f2">>
        /\ call[t].columns = None
        /\ ret[t].kind = "ok"
        /\ ColumnNames(ret[t].frame) = <<"a", "b", "c">>
        /\ ret[t].frame.height = 5
        /\ \A r \in 1..5 :
              /\ (ret[t].frame.columns[3].data[r] = NullCell) <=> (r <= 2)
              /\ (ret[t].frame.columns[1].data[r] = NullCell) <=> (r >= 3)

(***************************************************************************)
(* Properties of the pool and its mutex (under Spec and LiveSpec).         *)
(***************************************************************************)
\* t has borrowed the pool for a batch: from POOL.lock() to the return
InBatch(t) == pc[t] \in {"batch", "union"}

\* t's current or last call ran a batch
HasBatch(t) == InBatch(t) \/ (ConcatReturned(t) /\ ret[t] # Err("pattern error"))

\* C7: every job of a batch ran on the pool that was installed when the batch
\* borrowed it, also when set_num_threads was called while the batch was in
\* flight; and that pool was installed no earlier than the last installation
\* that had returned when the concat_trees call started.
C7_BatchOnBorrowedPool ==
    \A t \in Threads :
        HasBatch(t) =>
            /\ \A i \in 1..Len(jobSt[t]) :
                   jobSt[t][i] # "pending" => ranOn[t][i] = borrowed[t].gen
            /\ \E k \in startLen[t]..Len(installedLog) : installedLog[k] = borrowed[t].gen

\* a batch that started after one installation had returned has run a job and
\* has another still to run, while a set_num_threads call made during the
\* batch waits with its new pool
C7_Witness ==
    \E t, u \in Threads :
        /\ pc[t] = "batch"
        /\ startLen[t] >= 2
        /\ borrowed[t].gen # 0
        /\ \E i, j \in 1..Len(jobSt[t]) : jobSt[t][i] = "done" /\ jobSt[t][j] = "pending"
        /\ pc[u] = "setlock"
        /\ call[u].lockAtCall = t
        /\ newPool[u] # borrowed[t]

\* the step in which set_num_threads stores its pool and returns Ok
SetStored(t) == pc[t] = "store" /\ pc'[t] = "returned"

Holds(t) == pc[t] = "store" \/ InBatch(t)

\* C9: at most one operation holds the pool; a thread that holds it holds the
\* mutex, so concat_trees holds the mutex from before its first job starts
\* until its last job has ended; and the pool a batch runs on stays installed
\* while the batch runs.
C9_MutualExclusion ==
    /\ \A t, u \in Threads : (Holds(t) /\ Holds(u)) => t = u
    /\ \A t \in Threads : Holds(t) => lock = t
    /\ \A t \in Threads :
          (\E i \in 1..Len(jobSt[t]) : jobSt[t][i] = "running") => (pc[t] = "batch" /\ lock = t)
    /\ \A t \in Threads : InBatch(t) => POOL = borrowed[t]

\* a batch has a job running while a second batch and then an installation
\* would take the pool: here the other thread waits for the mutex
C9_Witness ==
    \E t, u \in Threads :
        /\ pc[t] = "batch"
        /\ \E i \in 1..Len(jobSt[t]) : jobSt[t][i] = "running"
        /\ pc[u] \in {"lock", "setlock"}
        /\ call[u].lockAtCall = t

\* t is inside a call
Busy(t) == pc[t] \in {"setlock", "store", "lock", "batch", "union"}

\* C10: every call eventually returns, and a thread that has returned from
\* concat_trees (empty result, union, union error or panic) or from
\* set_num_threads no longer holds the mutex.
C10_CallsReturn ==
    /\ [](\A t \in Threads : pc[t] \in {"idle", "returned"} => lock # t)
    /\ \A t \in Threads : Busy(t) ~> (pc[t] = "returned")

\* a call took the mutex after concat_trees had returned the error of the
\* diagonal union
C10_Witness ==
    \E t, u \in Threads :
        /\ pc[t] = "returned"
        /\ ret[t] = Err("dtype mismatch")
        /\ call[u].lockAtCall = t
        /\ lock = u

====
